---- MODULE Spec2Model ----
(***************************************************************************)
(* sesh: declarative tmux session management.                              *)
(*                                                                         *)
(* The model covers the reconciliation commands of src/src/app.rs          *)
(* (run_status, run_up, run_down, run_attach, run_restart), the            *)
(* declaration edits (run_window_add, run_window_remove) and the tmux      *)
(* backend of src/src/tmux.rs.  The backend state is the session map and   *)
(* the command log of MockTmuxBackend; the process-backed backend is the   *)
(* same state plus calls that may fail for an external reason.             *)
(***************************************************************************)
EXTENDS Integers, Sequences, FiniteSets, TLC

(* ---------------------------------------------------------------------- *)
(* Bounds                                                                 *)
(* ---------------------------------------------------------------------- *)
\* longest declared window sequence drawn by Init / kept by window add
MaxWindows == 2
\* number of command invocations in one behaviour against the in-memory backend
MaxRuns == 2
\* number of command invocations in one behaviour against the process-backed
\* backend, whose calls may fail
MaxRealRuns == 1
MaxCalls == 3
MaxUps == 3

(* ---------------------------------------------------------------------- *)
(* Values                                                                 *)
(* ---------------------------------------------------------------------- *)
\* Option<T>: None is the empty tuple, Some(x) the one-element tuple
None == <<>>
Some(x) == <<x>>
Option(S) == {None} \cup {Some(x) : x \in S}

Range(s) == {s[i] : i \in 1..Len(s)}
SeqUpTo(S, n) == UNION {[1..k -> S] : k \in 0..n}

\* the invocations; Main is the one the sequential specification runs
Procs == {1, 2}
Main == 1

\* config.name of the declaration, and one session the declaration does not name
SessionName == "s"
OtherSession == "o"

\* declared window names and commands Init draws from
Names == {"a", "b"}
Commands == {<<"vim">>}

WindowConf == [name : Option(Names), command : Option(Commands)]

\* the persisted configuration file: ok = FALSE is a missing or malformed file
Config == [ok : {TRUE}, name : {SessionName},
           window : SeqUpTo(WindowConf, MaxWindows)]
NoConfig == [ok |-> FALSE, name |-> "", window |-> <<>>]

\* window lists the declared session may have before the first invocation
InitWindows == {<<>>, <<"bash">>, <<"a">>, <<"bash", "b">>}

VARIABLES
    conf,              \* the configuration file on disk
    sessions,          \* MockState.sessions: session name -> window names
    commands_sent,     \* MockState.commands_sent: <<session, index, command>>
    backend,           \* "mock" (in-memory) or "real" (process-backed)
    state_lock,        \* the Mutex of MockTmuxBackend.state: its holder, or 0
    pc,                \* per invocation: position in the command's code
    cmd,               \* per invocation: the CLI command
    quiet,             \* per invocation: cli.quiet
    config,            \* per invocation: config.window as loaded
    session_exists,    \* per invocation: local session_exists
    existing_windows,  \* per invocation: local existing_windows / running_windows
    idx,               \* per invocation: loop index (0-based, as in the code)
    result,            \* per invocation: "none", "ok", or the error kind
    report,            \* per invocation: the session line run_status printed
    marks,             \* per invocation: the per-window lines run_status printed
    args,              \* per invocation: arguments of window add / window remove
    calls,             \* history: Backend calls issued by the invocation
    written,           \* history: configurations the invocation wrote to disk
    returned,          \* history: run_down / run_up returns inside the invocation
    pre,               \* history: backend state when the invocation started
    last,              \* history: summary of the previous invocation
    called,            \* history: the last Backend operation called directly
    history,           \* history: the calls of concurrent callers, in lock order
    runs               \* history: number of invocations started

backendVars == <<sessions, commands_sent, backend, state_lock>>
localVars == <<config, session_exists, existing_windows, idx>>
outVars == <<report, marks, args, written>>
histVars == <<pre, last, called, history, runs>>
vars == <<conf, sessions, commands_sent, backend, state_lock, pc, cmd, quiet,
          config, session_exists, existing_windows, idx, result, report, marks, args,
          calls, written, returned, pre, last, called, history, runs>>

(* ---------------------------------------------------------------------- *)
(* Backend: MockTmuxBackend over st = [sessions, commands_sent]           *)
(* ---------------------------------------------------------------------- *)
St == [sessions |-> sessions, commands_sent |-> commands_sent]

Failed(st) == [ok |-> FALSE, st |-> st]
Done(st) == [ok |-> TRUE, st |-> st]

check_available(st) == Done(st)

\* mutant: has_session never finds the session
has_session_Never(st, name) == FALSE

has_session(st, name) == name \in DOMAIN st.sessions

list_windows(st, session) ==
    IF session \in DOMAIN st.sessions
    THEN [ok |-> TRUE, windows |-> st.sessions[session]]
    ELSE [ok |-> FALSE, windows |-> <<>>]

\* mutant: new_session inserts without looking for the name
new_session_Replace(st, name) ==
    Done([st EXCEPT !.sessions =
             (name :> <<"bash">>)
             @@ [n \in (DOMAIN st.sessions) \ {name} |-> st.sessions[n]]])

new_session(st, name) ==
    IF name \in DOMAIN st.sessions
    THEN Failed(st)
    ELSE Done([st EXCEPT !.sessions = (name :> <<"bash">>) @@ @])

\* mutant: new_window drops the name it is given
new_window_Unnamed(st, session, window_name, target_index) ==
    IF session \notin DOMAIN st.sessions
    THEN Failed(st)
    ELSE Done([st EXCEPT !.sessions[session] = Append(@, "unnamed")])

new_window(st, session, window_name, target_index) ==
    IF session \notin DOMAIN st.sessions
    THEN Failed(st)
    ELSE LET name == IF window_name = None THEN "unnamed" ELSE window_name[1]
         IN  Done([st EXCEPT !.sessions[session] = Append(@, name)])

send_keys(st, session, window_index, command) ==
    IF session \notin DOMAIN st.sessions
    THEN Failed(st)
    ELSE Done([st EXCEPT !.commands_sent =
                   Append(@, <<session, window_index, command>>)])

\* mutant: kill_session reports success and keeps the session
kill_session_Kept(st, name) ==
    IF name \notin DOMAIN st.sessions THEN Failed(st) ELSE Done(st)

kill_session(st, name) ==
    IF name \notin DOMAIN st.sessions
    THEN Failed(st)
    ELSE Done([st EXCEPT !.sessions =
                   [n \in (DOMAIN st.sessions) \ {name} |-> st.sessions[n]]])

\* mutant: kill_window drops the last window before it reports a name it
\* did not find
kill_window_Pop(st, session, window_name) ==
    IF session \notin DOMAIN st.sessions
    THEN Failed(st)
    ELSE LET windows == st.sessions[session]
             found == {i \in 1..Len(windows) : windows[i] = window_name}
         IN  IF found = {}
             THEN Failed([st EXCEPT !.sessions[session] =
                             SubSeq(windows, 1, Len(windows) - 1)])
             ELSE LET pos == CHOOSE i \in found : \A j \in found : i <= j
                  IN  Done([st EXCEPT !.sessions[session] =
                               SubSeq(windows, 1, pos - 1)
                               \o SubSeq(windows, pos + 1, Len(windows))])

kill_window(st, session, window_name) ==
    IF session \notin DOMAIN st.sessions
    THEN Failed(st)
    ELSE LET windows == st.sessions[session]
             found == {i \in 1..Len(windows) : windows[i] = window_name}
         IN  IF found = {}
             THEN Failed(st)
             ELSE LET pos == CHOOSE i \in found : \A j \in found : i <= j
                  IN  Done([st EXCEPT !.sessions[session] =
                               SubSeq(windows, 1, pos - 1)
                               \o SubSeq(windows, pos + 1, Len(windows))])

rename_window(st, session, window_index, new_name) ==
    IF session \notin DOMAIN st.sessions
    THEN Failed(st)
    ELSE IF window_index >= Len(st.sessions[session])
    THEN Failed(st)
    ELSE Done([st EXCEPT !.sessions[session][window_index + 1] = new_name])

attach_session(st, name) ==
    IF name \notin DOMAIN st.sessions THEN Failed(st) ELSE Done(st)

\* RealTmuxBackend: the spawned tmux process may fail whatever the state is
\* (output()? or a non-zero exit status); the in-memory backend never does.
Faults == IF backend = "real" THEN {FALSE, TRUE} ELSE {FALSE}

(* ---------------------------------------------------------------------- *)
(* Initial state                                                          *)
(* ---------------------------------------------------------------------- *)
NoArgs == [name |-> None, cmd |-> "", args |-> <<>>]
NoCall == [op |-> "none", session |-> "", window |-> None, index |-> -1,
           ok |-> TRUE, out |-> <<>>]

\* a backend of the given kind, the configuration file one of configs, and
\* the declared session absent or holding one of the window lists
InitFrom(kind, configs, windows) ==
    /\ conf \in configs
    /\ \/ sessions = [n \in {OtherSession} |-> <<"bash">>]
       \/ \E w \in windows :
            sessions = [n \in {OtherSession, SessionName} |->
                           IF n = SessionName THEN w ELSE <<"bash">>]
    /\ commands_sent = <<>>
    /\ backend = kind
    /\ state_lock = 0
    /\ pc = [p \in Procs |-> "idle"]
    /\ cmd = [p \in Procs |-> "none"]
    /\ quiet = [p \in Procs |-> FALSE]
    /\ config = [p \in Procs |-> <<>>]
    /\ session_exists = [p \in Procs |-> FALSE]
    /\ existing_windows = [p \in Procs |-> <<>>]
    /\ idx = [p \in Procs |-> 0]
    /\ result = [p \in Procs |-> "none"]
    /\ report = [p \in Procs |-> "none"]
    /\ marks = [p \in Procs |-> <<>>]
    /\ args = [p \in Procs |-> NoArgs]
    /\ calls = [p \in Procs |-> <<>>]
    /\ written = [p \in Procs |-> <<>>]
    /\ returned = [p \in Procs |-> <<>>]
    /\ pre = [p \in Procs |-> [sessions |-> sessions, commands_sent |-> <<>>,
                               conf |-> conf]]
    /\ last = [cmd |-> "other", existed |-> FALSE]
    /\ called = NoCall
    /\ history = <<>>
    /\ runs = 0

InitWith(kind) == InitFrom(kind, Config \cup {NoConfig}, InitWindows)

\* MockTmuxBackend
Init == InitWith("mock")
\* RealTmuxBackend
InitReal == InitWith("real")

(* ---------------------------------------------------------------------- *)
(* Steps shared by the commands                                           *)
(* ---------------------------------------------------------------------- *)
\* invocation p has issued Backend operation op
Issued_by(p, op) == \E i \in 1..Len(calls[p]) : calls[p][i].op = op

\* the invocation issues Backend operation op (window index i, or -1)
Log(p, op, i, ok) ==
    calls' = [calls EXCEPT ![p] = Append(@, [op |-> op, idx |-> i, ok |-> ok])]

SetBackend(st) ==
    /\ sessions' = st.sessions
    /\ commands_sent' = st.commands_sent
    /\ UNCHANGED <<backend, state_lock>>

Goto(p, label) ==
    /\ pc' = [pc EXCEPT ![p] = label]
    /\ UNCHANGED <<result, returned>>

\* the command returns to main with res: "ok" or the kind of its error
Finish(p, res) ==
    /\ pc' = [pc EXCEPT ![p] = "idle"]
    /\ result' = [result EXCEPT ![p] = res]

\* mutant: run_restart goes on to run_up whatever run_down returned
DownReturns_Ignored(p, res) ==
    /\ returned' = [returned EXCEPT ![p] = Append(@, [fn |-> "run_down", result |-> res])]
    /\ IF cmd[p] = "restart"
       THEN /\ pc' = [pc EXCEPT ![p] = "up_check"]
            /\ UNCHANGED result
       ELSE Finish(p, res)

\* run_down returns res to its caller
DownReturns(p, res) ==
    /\ returned' = [returned EXCEPT ![p] = Append(@, [fn |-> "run_down", result |-> res])]
    /\ IF res = "ok" /\ cmd[p] = "restart"
       THEN /\ pc' = [pc EXCEPT ![p] = "up_check"]
            /\ UNCHANGED result
       ELSE Finish(p, res)

\* mutant: run_attach goes on to attach whatever run_up returned
UpReturns_Ignored(p, res) ==
    /\ returned' = [returned EXCEPT ![p] = Append(@, [fn |-> "run_up", result |-> res])]
    /\ IF cmd[p] = "attach"
       THEN /\ pc' = [pc EXCEPT ![p] = "at_load"]
            /\ UNCHANGED result
       ELSE Finish(p, res)

\* run_up returns res to its caller
UpReturns(p, res) ==
    /\ returned' = [returned EXCEPT ![p] = Append(@, [fn |-> "run_up", result |-> res])]
    /\ IF res = "ok" /\ cmd[p] = "attach"
       THEN /\ pc' = [pc EXCEPT ![p] = "at_load"]
            /\ UNCHANGED result
       ELSE Finish(p, res)

\* mutant: run_down starts without check_tmux_available
Entry_Unchecked(c) ==
    CASE c = "status"  -> "st_check"
      [] c = "up"      -> "up_check"
      [] c = "down"    -> "dn_load"
      [] c = "attach"  -> "at_check"
      [] c = "restart" -> "dn_check"

\* first position of each command
Entry(c) ==
    CASE c = "status"  -> "st_check"
      [] c = "up"      -> "up_check"
      [] c = "down"    -> "dn_check"
      [] c = "attach"  -> "at_check"
      [] c = "restart" -> "dn_check"

\* what the next invocation remembers of this one: a run_up or run_down
\* that succeeded, and whether it found the session
Summary(p) ==
    IF result[p] = "ok" /\ cmd[p] \in {"up", "down"}
    THEN [cmd |-> cmd[p], existed |-> session_exists[p]]
    ELSE [cmd |-> "other", existed |-> FALSE]

RunBound == IF backend = "mock" THEN MaxRuns ELSE MaxRealRuns

\* main dispatches one reconciliation command
Dispatch(p, c, q) ==
    /\ pc[p] = "idle"
    /\ pc' = [pc EXCEPT ![p] = Entry(c)]
    /\ cmd' = [cmd EXCEPT ![p] = c]
    /\ quiet' = [quiet EXCEPT ![p] = q]
    /\ config' = [config EXCEPT ![p] = <<>>]
    /\ session_exists' = [session_exists EXCEPT ![p] = FALSE]
    /\ existing_windows' = [existing_windows EXCEPT ![p] = <<>>]
    /\ idx' = [idx EXCEPT ![p] = 0]
    /\ result' = [result EXCEPT ![p] = "none"]
    /\ report' = [report EXCEPT ![p] = "none"]
    /\ marks' = [marks EXCEPT ![p] = <<>>]
    /\ args' = [args EXCEPT ![p] = NoArgs]
    /\ calls' = [calls EXCEPT ![p] = <<>>]
    /\ written' = [written EXCEPT ![p] = <<>>]
    /\ returned' = [returned EXCEPT ![p] = <<>>]
    /\ pre' = [pre EXCEPT ![p] = [sessions |-> sessions,
                                  commands_sent |-> commands_sent,
                                  conf |-> conf]]
    /\ last' = Summary(p)
    /\ runs' = runs + 1
    /\ UNCHANGED <<conf, backendVars, called, history>>

Start(p, c, q) == runs < RunBound /\ Dispatch(p, c, q)

(* ---------------------------------------------------------------------- *)
(* run_up                                                                 *)
(* ---------------------------------------------------------------------- *)
UpCheck(p) ==
    /\ pc[p] = "up_check"
    /\ \E fault \in Faults :
         LET r == IF fault THEN Failed(St) ELSE check_available(St)
         IN  /\ Log(p, "checkAvailable", -1, r.ok)
             /\ IF r.ok THEN Goto(p, "up_load") ELSE UpReturns(p, "backend")
    /\ UNCHANGED <<conf, backendVars, cmd, quiet, localVars, outVars, histVars>>

\* mutant: run_up goes on with an empty declaration when the load fails
UpLoad_Default(p) ==
    /\ pc[p] = "up_load"
    /\ config' = [config EXCEPT ![p] = conf.window]
    /\ Goto(p, "up_has")
    /\ UNCHANGED <<conf, backendVars, cmd, quiet, session_exists,
                   existing_windows, idx, outVars, calls, histVars>>

UpLoad(p) ==
    /\ pc[p] = "up_load"
    /\ IF conf.ok
       THEN /\ config' = [config EXCEPT ![p] = conf.window]
            /\ Goto(p, "up_has")
       ELSE /\ UNCHANGED config
            /\ UpReturns(p, "config")
    /\ UNCHANGED <<conf, backendVars, cmd, quiet, session_exists,
                   existing_windows, idx, outVars, calls, histVars>>

UpHas(p) ==
    /\ pc[p] = "up_has"
    /\ \E fault \in Faults :
         /\ Log(p, "hasSession", -1, ~fault)
         /\ IF fault
            THEN /\ UNCHANGED session_exists
                 /\ UpReturns(p, "backend")
            ELSE /\ session_exists' = [session_exists EXCEPT ![p] =
                                           has_session(St, SessionName)]
                 /\ Goto(p, IF has_session(St, SessionName)
                            THEN "up_list" ELSE "up_new_session")
    /\ UNCHANGED <<conf, backendVars, cmd, quiet, config, existing_windows,
                   idx, outVars, histVars>>

UpNewSession(p) ==
    /\ pc[p] = "up_new_session"
    /\ \E fault \in Faults :
         LET r == IF fault THEN Failed(St) ELSE new_session(St, SessionName)
         IN  /\ Log(p, "newSession", -1, r.ok)
             /\ SetBackend(r.st)
             /\ IF r.ok THEN Goto(p, "up_loop") ELSE UpReturns(p, "backend")
    /\ existing_windows' = [existing_windows EXCEPT ![p] = <<>>]
    /\ UNCHANGED <<conf, cmd, quiet, config, session_exists, idx, outVars,
                   histVars>>

UpList(p) ==
    /\ pc[p] = "up_list"
    /\ \E fault \in Faults :
         LET r == IF fault THEN [ok |-> FALSE, windows |-> <<>>]
                  ELSE list_windows(St, SessionName)
         IN  /\ Log(p, "listWindows", -1, r.ok)
             /\ existing_windows' = [existing_windows EXCEPT ![p] = r.windows]
             /\ IF r.ok THEN Goto(p, "up_loop") ELSE UpReturns(p, "backend")
    /\ UNCHANGED <<conf, backendVars, cmd, quiet, config, session_exists, idx,
                   outVars, histVars>>

\* mutant: an unnamed declaration is looked up under the name "unnamed"
WindowExists_Fallback(window_conf, existing) ==
    (IF window_conf.name = None THEN "unnamed" ELSE window_conf.name[1])
        \in Range(existing)

\* window_exists of the loop body: a declared name found in existing_windows
WindowExists(window_conf, existing) ==
    /\ window_conf.name # None
    /\ window_conf.name[1] \in Range(existing)

\* mutant: no declared window is mapped onto the implicit first window
IsFirstWindow_Never(i, existed) == FALSE

\* the declared window at idx is mapped onto the implicit first window
IsFirstWindow(i, existed) == i = 0 /\ ~existed

\* the loop is over: run_up returns Ok
UpReturn(p) ==
    /\ pc[p] = "up_loop"
    /\ idx[p] >= Len(config[p])
    /\ UpReturns(p, "ok")
    /\ UNCHANGED <<conf, backendVars, cmd, quiet, localVars, outVars, calls,
                   histVars>>

\* mutant: the command of a window that exists is sent again
UpSkip_Resend(p) ==
    /\ pc[p] = "up_loop"
    /\ idx[p] < Len(config[p])
    /\ WindowExists(config[p][idx[p] + 1], existing_windows[p])
    /\ idx' = [idx EXCEPT ![p] = @ + 1]
    /\ Goto(p, "up_loop")
    /\ LET window_conf == config[p][idx[p] + 1]
       IN  IF window_conf.command = None
           THEN UNCHANGED <<backendVars, calls>>
           ELSE /\ Log(p, "sendKeys", idx[p], TRUE)
                /\ SetBackend(send_keys(St, SessionName, idx[p],
                                         window_conf.command[1]).st)
    /\ UNCHANGED <<conf, cmd, quiet, config, session_exists,
                   existing_windows, outVars, histVars>>

\* loop body, window_exists: continue
UpSkip(p) ==
    /\ pc[p] = "up_loop"
    /\ idx[p] < Len(config[p])
    /\ WindowExists(config[p][idx[p] + 1], existing_windows[p])
    /\ idx' = [idx EXCEPT ![p] = @ + 1]
    /\ Goto(p, "up_loop")
    /\ UNCHANGED <<conf, backendVars, cmd, quiet, config, session_exists,
                   existing_windows, outVars, calls, histVars>>

\* mutant: the command of the first declared window is not sent
UpFirstWindow_Silent(p) ==
    /\ pc[p] = "up_loop"
    /\ idx[p] < Len(config[p])
    /\ ~WindowExists(config[p][idx[p] + 1], existing_windows[p])
    /\ IsFirstWindow(idx[p], session_exists[p])
    /\ Goto(p, "up_loop")
    /\ idx' = [idx EXCEPT ![p] = @ + 1]
    /\ UNCHANGED <<conf, backendVars, cmd, quiet, config, session_exists,
                   existing_windows, outVars, calls, histVars>>

\* loop body, idx == 0 && !session_exists: send keys to the default window
UpFirstWindow(p) ==
    /\ pc[p] = "up_loop"
    /\ idx[p] < Len(config[p])
    /\ ~WindowExists(config[p][idx[p] + 1], existing_windows[p])
    /\ IsFirstWindow(idx[p], session_exists[p])
    /\ LET window_conf == config[p][idx[p] + 1]
       IN  IF window_conf.command = None
           THEN /\ Goto(p, "up_loop")
                /\ idx' = [idx EXCEPT ![p] = @ + 1]
                /\ UNCHANGED <<backendVars, calls>>
           ELSE \E fault \in Faults :
                  LET r == IF fault THEN Failed(St)
                           ELSE send_keys(St, SessionName, idx[p],
                                          window_conf.command[1])
                  IN  /\ Log(p, "sendKeys", idx[p], r.ok)
                      /\ SetBackend(r.st)
                      /\ IF r.ok
                         THEN /\ Goto(p, "up_loop")
                              /\ idx' = [idx EXCEPT ![p] = @ + 1]
                         ELSE /\ UpReturns(p, "backend")
                              /\ UNCHANGED idx
    /\ UNCHANGED <<conf, cmd, quiet, config, session_exists, existing_windows,
                   outVars, histVars>>

\* mutant: the name of a created window is added to existing_windows
UpNewWindow_Refreshed(p) ==
    /\ pc[p] = "up_loop"
    /\ idx[p] < Len(config[p])
    /\ ~WindowExists(config[p][idx[p] + 1], existing_windows[p])
    /\ ~IsFirstWindow(idx[p], session_exists[p])
    /\ LET window_conf == config[p][idx[p] + 1]
       IN  \E fault \in Faults :
             LET r == IF fault THEN Failed(St)
                      ELSE new_window(St, SessionName, window_conf.name,
                                      Some(idx[p]))
             IN  /\ Log(p, "newWindow", idx[p], r.ok)
                 /\ SetBackend(r.st)
                 /\ existing_windows' =
                      [existing_windows EXCEPT ![p] =
                          IF r.ok /\ window_conf.name # None
                          THEN Append(@, window_conf.name[1]) ELSE @]
                 /\ IF ~r.ok
                    THEN /\ UpReturns(p, "backend")
                         /\ UNCHANGED idx
                    ELSE IF window_conf.command = None
                    THEN /\ Goto(p, "up_loop")
                         /\ idx' = [idx EXCEPT ![p] = @ + 1]
                    ELSE /\ Goto(p, "up_send")
                         /\ UNCHANGED idx
    /\ UNCHANGED <<conf, cmd, quiet, config, session_exists, outVars, histVars>>

\* loop body, otherwise: create the window
UpNewWindow(p) ==
    /\ pc[p] = "up_loop"
    /\ idx[p] < Len(config[p])
    /\ ~WindowExists(config[p][idx[p] + 1], existing_windows[p])
    /\ ~IsFirstWindow(idx[p], session_exists[p])
    /\ LET window_conf == config[p][idx[p] + 1]
       IN  \E fault \in Faults :
             LET r == IF fault THEN Failed(St)
                      ELSE new_window(St, SessionName, window_conf.name,
                                      Some(idx[p]))
             IN  /\ Log(p, "newWindow", idx[p], r.ok)
                 /\ SetBackend(r.st)
                 /\ IF ~r.ok
                    THEN /\ UpReturns(p, "backend")
                         /\ UNCHANGED idx
                    ELSE IF window_conf.command = None
                    THEN /\ Goto(p, "up_loop")
                         /\ idx' = [idx EXCEPT ![p] = @ + 1]
                    ELSE /\ Goto(p, "up_send")
                         /\ UNCHANGED idx
    /\ UNCHANGED <<conf, cmd, quiet, config, session_exists, existing_windows,
                   outVars, histVars>>

\* mutant: a failed send_keys is ignored and the loop goes on
UpSendKeys_Ignored(p) ==
    /\ pc[p] = "up_send"
    /\ \E fault \in Faults :
         LET r == IF fault THEN Failed(St)
                  ELSE send_keys(St, SessionName, idx[p],
                                 config[p][idx[p] + 1].command[1])
         IN  /\ Log(p, "sendKeys", idx[p], r.ok)
             /\ SetBackend(r.st)
             /\ Goto(p, "up_loop")
             /\ idx' = [idx EXCEPT ![p] = @ + 1]
    /\ UNCHANGED <<conf, cmd, quiet, config, session_exists, existing_windows,
                   outVars, histVars>>

\* loop body, after new_window: execute the command in the new window
UpSendKeys(p) ==
    /\ pc[p] = "up_send"
    /\ \E fault \in Faults :
         LET r == IF fault THEN Failed(St)
                  ELSE send_keys(St, SessionName, idx[p],
                                 config[p][idx[p] + 1].command[1])
         IN  /\ Log(p, "sendKeys", idx[p], r.ok)
             /\ SetBackend(r.st)
             /\ IF r.ok
                THEN /\ Goto(p, "up_loop")
                     /\ idx' = [idx EXCEPT ![p] = @ + 1]
                ELSE /\ UpReturns(p, "backend")
                     /\ UNCHANGED idx
    /\ UNCHANGED <<conf, cmd, quiet, config, session_exists, existing_windows,
                   outVars, histVars>>

run_up(p) ==
    \/ UpCheck(p) \/ UpLoad(p) \/ UpHas(p) \/ UpNewSession(p) \/ UpList(p)
    \/ UpReturn(p) \/ UpSkip(p) \/ UpFirstWindow(p) \/ UpNewWindow(p)
    \/ UpSendKeys(p)

(* ---------------------------------------------------------------------- *)
(* run_down                                                               *)
(* ---------------------------------------------------------------------- *)
DownCheck(p) ==
    /\ pc[p] = "dn_check"
    /\ \E fault \in Faults :
         LET r == IF fault THEN Failed(St) ELSE check_available(St)
         IN  /\ Log(p, "checkAvailable", -1, r.ok)
             /\ IF r.ok THEN Goto(p, "dn_load") ELSE DownReturns(p, "backend")
    /\ UNCHANGED <<conf, backendVars, cmd, quiet, localVars, outVars, histVars>>

DownLoad(p) ==
    /\ pc[p] = "dn_load"
    /\ IF conf.ok
       THEN /\ config' = [config EXCEPT ![p] = conf.window]
            /\ Goto(p, "dn_has")
       ELSE /\ UNCHANGED config
            /\ DownReturns(p, "config")
    /\ UNCHANGED <<conf, backendVars, cmd, quiet, session_exists,
                   existing_windows, idx, outVars, calls, histVars>>

\* mutant: run_down kills without looking at has_session's answer
DownHas_Always(p) ==
    /\ pc[p] = "dn_has"
    /\ \E fault \in Faults :
         /\ Log(p, "hasSession", -1, ~fault)
         /\ IF fault
            THEN /\ UNCHANGED session_exists
                 /\ DownReturns(p, "backend")
            ELSE /\ session_exists' = [session_exists EXCEPT ![p] =
                                           has_session(St, SessionName)]
                 /\ Goto(p, "dn_kill")
    /\ UNCHANGED <<conf, backendVars, cmd, quiet, config, existing_windows,
                   idx, outVars, histVars>>

\* has_session; a session that is not running is not an error
DownHas(p) ==
    /\ pc[p] = "dn_has"
    /\ \E fault \in Faults :
         /\ Log(p, "hasSession", -1, ~fault)
         /\ IF fault
            THEN /\ UNCHANGED session_exists
                 /\ DownReturns(p, "backend")
            ELSE /\ session_exists' = [session_exists EXCEPT ![p] =
                                           has_session(St, SessionName)]
                 /\ IF has_session(St, SessionName)
                    THEN Goto(p, "dn_kill")
                    ELSE DownReturns(p, "ok")
    /\ UNCHANGED <<conf, backendVars, cmd, quiet, config, existing_windows,
                   idx, outVars, histVars>>

\* mutant: run_down kills every session of the server
DownKill_Server(p) ==
    /\ pc[p] = "dn_kill"
    /\ Log(p, "killSession", -1, TRUE)
    /\ SetBackend([St EXCEPT !.sessions = <<>>])
    /\ DownReturns(p, "ok")
    /\ UNCHANGED <<conf, cmd, quiet, localVars, outVars, histVars>>

DownKill(p) ==
    /\ pc[p] = "dn_kill"
    /\ \E fault \in Faults :
         LET r == IF fault THEN Failed(St) ELSE kill_session(St, SessionName)
         IN  /\ Log(p, "killSession", -1, r.ok)
             /\ SetBackend(r.st)
             /\ DownReturns(p, IF r.ok THEN "ok" ELSE "backend")
    /\ UNCHANGED <<conf, cmd, quiet, localVars, outVars, histVars>>

run_down(p) == DownCheck(p) \/ DownLoad(p) \/ DownHas(p) \/ DownKill(p)

(* ---------------------------------------------------------------------- *)
(* run_attach: check, run_up (above), load, attach                        *)
(* ---------------------------------------------------------------------- *)
AttachCheck(p) ==
    /\ pc[p] = "at_check"
    /\ \E fault \in Faults :
         LET r == IF fault THEN Failed(St) ELSE check_available(St)
         IN  /\ Log(p, "checkAvailable", -1, r.ok)
             /\ IF r.ok
                THEN Goto(p, "up_check")
                ELSE Finish(p, "backend") /\ UNCHANGED returned
    /\ UNCHANGED <<conf, backendVars, cmd, quiet, localVars, outVars, histVars>>

AttachLoad(p) ==
    /\ pc[p] = "at_load"
    /\ IF conf.ok
       THEN /\ config' = [config EXCEPT ![p] = conf.window]
            /\ Goto(p, "at_attach")
       ELSE /\ UNCHANGED <<config, returned>>
            /\ Finish(p, "config")
    /\ UNCHANGED <<conf, backendVars, cmd, quiet, session_exists,
                   existing_windows, idx, outVars, calls, histVars>>

\* mutant: a failed attach_session is tried once more
AttachSession_Retry(p) ==
    /\ pc[p] = "at_attach"
    /\ \E fault \in Faults :
         LET r == IF fault THEN Failed(St) ELSE attach_session(St, SessionName)
         IN  /\ Log(p, "attachSession", -1, r.ok)
             /\ IF r.ok \/ Issued_by(p, "attachSession")
                THEN Finish(p, IF r.ok THEN "ok" ELSE "backend")
                ELSE pc' = pc /\ UNCHANGED result
    /\ UNCHANGED <<conf, backendVars, cmd, quiet, localVars, outVars, returned,
                   histVars>>

AttachSession(p) ==
    /\ pc[p] = "at_attach"
    /\ \E fault \in Faults :
         LET r == IF fault THEN Failed(St) ELSE attach_session(St, SessionName)
         IN  /\ Log(p, "attachSession", -1, r.ok)
             /\ Finish(p, IF r.ok THEN "ok" ELSE "backend")
    /\ UNCHANGED <<conf, backendVars, cmd, quiet, localVars, outVars, returned,
                   histVars>>

run_attach(p) == AttachCheck(p) \/ AttachLoad(p) \/ AttachSession(p)

(* ---------------------------------------------------------------------- *)
(* run_status                                                             *)
(* ---------------------------------------------------------------------- *)
StatusCheck(p) ==
    /\ pc[p] = "st_check"
    /\ \E fault \in Faults :
         LET r == IF fault THEN Failed(St) ELSE check_available(St)
         IN  /\ Log(p, "checkAvailable", -1, r.ok)
             /\ IF r.ok
                THEN Goto(p, "st_load")
                ELSE Finish(p, "backend") /\ UNCHANGED returned
    /\ UNCHANGED <<conf, backendVars, cmd, quiet, localVars, outVars, histVars>>

StatusLoad(p) ==
    /\ pc[p] = "st_load"
    /\ IF conf.ok
       THEN /\ config' = [config EXCEPT ![p] = conf.window]
            /\ Goto(p, "st_has")
       ELSE /\ UNCHANGED <<config, returned>>
            /\ Finish(p, "config")
    /\ UNCHANGED <<conf, backendVars, cmd, quiet, session_exists,
                   existing_windows, idx, outVars, calls, histVars>>

\* mutant: the windows are listed whether or not the session exists
StatusHas_AlwaysList(p) ==
    /\ pc[p] = "st_has"
    /\ \E fault \in Faults :
         /\ Log(p, "hasSession", -1, ~fault)
         /\ IF fault
            THEN /\ UNCHANGED <<session_exists, report, returned>>
                 /\ Finish(p, "backend")
            ELSE LET exists == has_session(St, SessionName)
                 IN  /\ session_exists' = [session_exists EXCEPT ![p] = exists]
                     /\ report' = [report EXCEPT ![p] =
                                       IF quiet[p] THEN "none"
                                       ELSE IF exists THEN "running"
                                       ELSE "NOT running"]
                     /\ IF ~quiet[p]
                        THEN Goto(p, "st_list")
                        ELSE Finish(p, "ok") /\ UNCHANGED returned
    /\ UNCHANGED <<conf, backendVars, cmd, quiet, config, existing_windows,
                   idx, marks, args, written, histVars>>

\* has_session and the session line
StatusHas(p) ==
    /\ pc[p] = "st_has"
    /\ \E fault \in Faults :
         /\ Log(p, "hasSession", -1, ~fault)
         /\ IF fault
            THEN /\ UNCHANGED <<session_exists, report, returned>>
                 /\ Finish(p, "backend")
            ELSE LET exists == has_session(St, SessionName)
                 IN  /\ session_exists' = [session_exists EXCEPT ![p] = exists]
                     /\ report' = [report EXCEPT ![p] =
                                       IF quiet[p] THEN "none"
                                       ELSE IF exists THEN "running"
                                       ELSE "NOT running"]
                     /\ IF exists /\ ~quiet[p]
                        THEN Goto(p, "st_list")
                        ELSE Finish(p, "ok") /\ UNCHANGED returned
    /\ UNCHANGED <<conf, backendVars, cmd, quiet, config, existing_windows,
                   idx, marks, args, written, histVars>>

\* the effective name run_status prints for a declared window
WindowName(window_conf) ==
    IF window_conf.name = None THEN "unnamed" ELSE window_conf.name[1]

\* mutant: a declared window is running only when its name is live
IsRunning_ByName(running_windows, i, window_conf) ==
    WindowName(window_conf) \in Range(running_windows)

\* is_running of a declared window at index i (0-based)
IsRunning(running_windows, i, window_conf) ==
    \/ WindowName(window_conf) \in Range(running_windows)
    \/ (i < Len(running_windows) /\ WindowName(window_conf) = "unnamed")

\* list_windows and one line per declared window
StatusList(p) ==
    /\ pc[p] = "st_list"
    /\ \E fault \in Faults :
         LET r == IF fault THEN [ok |-> FALSE, windows |-> <<>>]
                  ELSE list_windows(St, SessionName)
         IN  /\ Log(p, "listWindows", -1, r.ok)
             /\ existing_windows' = [existing_windows EXCEPT ![p] = r.windows]
             /\ marks' = [marks EXCEPT ![p] =
                   IF ~r.ok THEN <<>>
                   ELSE [i \in 1..Len(config[p]) |->
                           [name |-> WindowName(config[p][i]),
                            running |-> IsRunning(r.windows, i - 1, config[p][i])]]]
             /\ Finish(p, IF r.ok THEN "ok" ELSE "backend")
    /\ UNCHANGED <<conf, backendVars, cmd, quiet, config, session_exists, idx,
                   report, args, written, returned, histVars>>

run_status(p) == StatusCheck(p) \/ StatusLoad(p) \/ StatusHas(p) \/ StatusList(p)

(* ---------------------------------------------------------------------- *)
(* Reconciliation: one invocation at a time                               *)
(* ---------------------------------------------------------------------- *)
\* run_restart is run_down followed by run_up (Entry, DownReturns)
StartRun(p) ==
    \E c \in {"status", "up", "down", "attach", "restart"} :
      \E q \in IF c = "status" THEN BOOLEAN ELSE {FALSE} :
        Start(p, c, q)

Next ==
    \/ StartRun(Main)
    \/ run_status(Main)
    \/ run_up(Main)
    \/ run_down(Main)
    \/ run_attach(Main)

Spec == Init /\ [][Next]_vars

\* the process-backed backend: the same commands, Backend calls may fail
SpecReal == InitReal /\ [][Next]_vars

\* run_up again and again on one declaration
StartUp(p) == runs < MaxUps /\ Dispatch(p, "up", FALSE)

NextUp == StartUp(Main) \/ run_up(Main)

SpecUp == Init /\ [][NextUp]_vars

\* two run_up invocations, one per process, on one declaration and one
\* backend in which the declared session does not exist; their Backend
\* calls interleave
InitRace == InitFrom("mock", Config \cup {NoConfig}, {})

StartRace(p) == cmd[p] = "none" /\ Dispatch(p, "up", FALSE)

NextRace == \E p \in Procs : StartRace(p) \/ run_up(p)

SpecRace == InitRace /\ [][NextRace]_vars

\* run_status alone, for declarations and sessions in which a window may
\* carry the name "unnamed"
StatusNames == {"a", "unnamed"}
StatusWindowConf == [name : Option(StatusNames), command : {None}]
StatusConfig == [ok : {TRUE}, name : {SessionName},
                 window : SeqUpTo(StatusWindowConf, MaxWindows)]
StatusWindows == {<<"bash">>, <<"a">>, <<"unnamed">>, <<"bash", "a">>,
                  <<"bash", "b">>, <<"bash", "unnamed">>}

InitStatus == InitFrom("mock", StatusConfig \cup {NoConfig}, StatusWindows)

StartStatus(p) == \E q \in BOOLEAN : Start(p, "status", q)

NextStatus == StartStatus(Main) \/ run_status(Main)

SpecStatus == InitStatus /\ [][NextStatus]_vars

(* ---------------------------------------------------------------------- *)
(* Declaration edits: window add, window remove                           *)
(* ---------------------------------------------------------------------- *)
AddArgs == [name : Option(Names), cmd : {"vim"},
            args : {<<>>, <<".">>, <<".", "-R">>}]
RemoveArgs == [name : Option(Names), cmd : {""}, args : {<<>>}]

\* main dispatches an edit: the handler runs in one step
StartEdit(p, c, a) ==
    /\ pc[p] = "idle"
    /\ runs < RunBound
    /\ cmd' = [cmd EXCEPT ![p] = c]
    /\ args' = [args EXCEPT ![p] = a]
    /\ quiet' = [quiet EXCEPT ![p] = FALSE]
    /\ session_exists' = [session_exists EXCEPT ![p] = FALSE]
    /\ existing_windows' = [existing_windows EXCEPT ![p] = <<>>]
    /\ idx' = [idx EXCEPT ![p] = 0]
    /\ report' = [report EXCEPT ![p] = "none"]
    /\ marks' = [marks EXCEPT ![p] = <<>>]
    /\ calls' = [calls EXCEPT ![p] = <<>>]
    /\ returned' = [returned EXCEPT ![p] = <<>>]
    /\ pre' = [pre EXCEPT ![p] = [sessions |-> sessions,
                                  commands_sent |-> commands_sent,
                                  conf |-> conf]]
    /\ last' = Summary(p)
    /\ runs' = runs + 1
    /\ UNCHANGED <<backendVars, pc, called, history>>

\* Config::write
Write(p, window) ==
    /\ conf' = [ok |-> TRUE, name |-> conf.name, window |-> window]
    /\ written' = [written EXCEPT ![p] = <<window>>]

\* the WindowConf window add builds from its arguments
NewWindowConf(a) == [name |-> a.name, command |-> Some(<<a.cmd>> \o a.args)]

\* mutant: the new window is inserted in front of the declared ones
Push_Front(window, a) == <<NewWindowConf(a)>> \o window

\* config.window after window add
Push(window, a) == Append(window, NewWindowConf(a))

run_window_add(p, a) ==
    /\ Len(conf.window) < MaxWindows
    /\ StartEdit(p, "window_add", a)
    /\ IF ~conf.ok
       THEN /\ result' = [result EXCEPT ![p] = "config"]
            /\ config' = [config EXCEPT ![p] = <<>>]
            /\ written' = [written EXCEPT ![p] = <<>>]
            /\ UNCHANGED conf
       ELSE /\ config' = [config EXCEPT ![p] = Push(conf.window, a)]
            /\ Write(p, Push(conf.window, a))
            /\ result' = [result EXCEPT ![p] = "ok"]

\* mutant: unwrap_or(false), unnamed windows are dropped as well
Retain_Unnamed(window, name) ==
    SelectSeq(window, LAMBDA w : IF w.name = None THEN FALSE ELSE w.name[1] # name)

\* config.window.retain(|w| w.name.as_ref().map(|n| n != name).unwrap_or(true))
Retain(window, name) ==
    SelectSeq(window, LAMBDA w : IF w.name = None THEN TRUE ELSE w.name[1] # name)

\* mutant: without --name the unnamed windows are the ones removed
Removal_Unnamed(window, a) ==
    LET kept == IF a.name = None
                THEN SelectSeq(window, LAMBDA w : w.name # None)
                ELSE Retain(window, a.name[1])
    IN  IF Len(kept) = Len(window)
        THEN [result |-> "notfound", write |-> FALSE, window |-> kept]
        ELSE [result |-> "ok", write |-> TRUE, window |-> kept]

\* the outcome of window remove on a loaded declaration
Removal(window, a) ==
    IF a.name = None
    THEN [result |-> "validation", write |-> FALSE, window |-> window]
    ELSE LET kept == Retain(window, a.name[1])
         IN  IF Len(kept) = Len(window)
             THEN [result |-> "notfound", write |-> FALSE, window |-> kept]
             ELSE [result |-> "ok", write |-> TRUE, window |-> kept]

run_window_remove(p, a) ==
    /\ StartEdit(p, "window_remove", a)
    /\ IF ~conf.ok
       THEN /\ result' = [result EXCEPT ![p] = "config"]
            /\ config' = [config EXCEPT ![p] = <<>>]
            /\ written' = [written EXCEPT ![p] = <<>>]
            /\ UNCHANGED conf
       ELSE LET r == Removal(conf.window, a)
            IN  /\ config' = [config EXCEPT ![p] = r.window]
                /\ result' = [result EXCEPT ![p] = r.result]
                /\ IF r.write
                   THEN Write(p, r.window)
                   ELSE /\ written' = [written EXCEPT ![p] = <<>>]
                        /\ UNCHANGED conf

WindowAdd == \E a \in AddArgs : run_window_add(Main, a)
WindowRemove == \E a \in RemoveArgs : run_window_remove(Main, a)

NextEdit == WindowAdd \/ WindowRemove

SpecEdit == Init /\ [][NextEdit]_vars

(* ---------------------------------------------------------------------- *)
(* The Backend operations called directly, in any order                   *)
(* ---------------------------------------------------------------------- *)
SessionNames == {SessionName, OtherSession}
WindowNames == {"bash", "unnamed"} \cup Names

\* caller p calls one operation of MockTmuxBackend: r is what it returns,
\* out the value inside Ok
BackendCall(p, op, session, window, index, r, out) ==
    /\ pc[p] = "idle"
    /\ runs < MaxCalls
    /\ called' = [op |-> op, session |-> session, window |-> window,
                  index |-> index, ok |-> r.ok, out |-> out]
    /\ pre' = [pre EXCEPT ![p] = [sessions |-> sessions,
                                  commands_sent |-> commands_sent,
                                  conf |-> conf]]
    /\ SetBackend(r.st)
    /\ runs' = runs + 1
    /\ UNCHANGED <<conf, pc, cmd, quiet, localVars, result, outVars, calls,
                   returned, last, history>>

CallCheckAvailable(p) ==
    BackendCall(p, "checkAvailable", "", None, -1, check_available(St), <<>>)

CallHasSession(p) ==
    \E name \in SessionNames :
       BackendCall(p, "hasSession", name, None, -1, Done(St),
                   <<has_session(St, name)>>)

CallListWindows(p) ==
    \E session \in SessionNames :
       LET r == list_windows(St, session)
       IN  BackendCall(p, "listWindows", session, None, -1,
                       [ok |-> r.ok, st |-> St], r.windows)

CallNewSession(p) ==
    \E name \in SessionNames :
       BackendCall(p, "newSession", name, None, -1, new_session(St, name), <<>>)

CallNewWindow(p) ==
    \E session \in SessionNames, window_name \in Option(Names) :
       BackendCall(p, "newWindow", session, window_name, -1,
                   new_window(St, session, window_name, None), <<>>)

CallSendKeys(p) ==
    \E session \in SessionNames, command \in Commands :
       BackendCall(p, "sendKeys", session, None, 0,
                   send_keys(St, session, 0, command), <<>>)

CallKillSession(p) ==
    \E name \in SessionNames :
       BackendCall(p, "killSession", name, None, -1, kill_session(St, name), <<>>)

CallKillWindow(p) ==
    \E session \in SessionNames, window_name \in WindowNames :
       BackendCall(p, "killWindow", session, Some(window_name), -1,
                   kill_window(St, session, window_name), <<>>)

CallRenameWindow(p) ==
    \E session \in SessionNames, window_index \in 0..1, new_name \in Names :
       BackendCall(p, "renameWindow", session, Some(new_name), window_index,
                   rename_window(St, session, window_index, new_name), <<>>)

CallAttachSession(p) ==
    \E name \in SessionNames :
       BackendCall(p, "attachSession", name, None, -1,
                   attach_session(St, name), <<>>)

NextBackend ==
    \/ CallCheckAvailable(Main)
    \/ CallHasSession(Main)
    \/ CallListWindows(Main)
    \/ CallNewSession(Main)
    \/ CallNewWindow(Main)
    \/ CallSendKeys(Main)
    \/ CallKillSession(Main)
    \/ CallKillWindow(Main)
    \/ CallRenameWindow(Main)
    \/ CallAttachSession(Main)

InitBackend == InitFrom("mock", {NoConfig}, InitWindows)

SpecBackend == InitBackend /\ [][NextBackend]_vars

(* ---------------------------------------------------------------------- *)
(* MockTmuxBackend shared by concurrent callers                           *)
(* ---------------------------------------------------------------------- *)
\* the calls the callers make on the declared session: every operation
\* that takes the lock (check_available does not)
Call(op, window, index) ==
    [op |-> op, session |-> SessionName, window |-> window, index |-> index]

MockCalls ==
    {Call(op, None, -1) :
        op \in {"hasSession", "listWindows", "newSession", "killSession",
                "attachSession"}}
    \cup {Call("newWindow", Some("a"), -1),
          Call("sendKeys", None, 0),
          Call("killWindow", Some("a"), -1),
          Call("renameWindow", Some("b"), 0)}

\* what the operation of call c returns on st
Apply(st, c) ==
    CASE c.op = "checkAvailable" -> check_available(st)
      [] c.op = "hasSession" -> Done(st)
      [] c.op = "listWindows" ->
            [ok |-> list_windows(st, c.session).ok, st |-> st]
      [] c.op = "newSession" -> new_session(st, c.session)
      [] c.op = "newWindow" -> new_window(st, c.session, c.window, None)
      [] c.op = "sendKeys" -> send_keys(st, c.session, c.index, <<"vim">>)
      [] c.op = "killSession" -> kill_session(st, c.session)
      [] c.op = "killWindow" -> kill_window(st, c.session, c.window[1])
      [] c.op = "renameWindow" ->
            rename_window(st, c.session, c.index, c.window[1])
      [] c.op = "attachSession" -> attach_session(st, c.session)

\* the update an operation makes once its checks have passed: insert for
\* new_session, otherwise what the operation does on the state it finds
Update(st, c) ==
    IF c.op = "newSession"
    THEN [st EXCEPT !.sessions =
             (c.session :> <<"bash">>)
             @@ [n \in (DOMAIN st.sessions) \ {c.session} |-> st.sessions[n]]]
    ELSE Apply(st, c).st

\* the call caller p has in flight: its last entry of history
InFlight(p) ==
    LET own == {i \in 1..Len(history) : history[i].caller = p}
    IN  CHOOSE i \in own : \A j \in own : j <= i

\* mutant: the operation enters without waiting for the Mutex
MockLock_Free(p) ==
    /\ pc[p] = "idle"
    /\ Len(history) < MaxCalls
    /\ \E c \in MockCalls :
         history' = Append(history, [caller |-> p, call |-> c, ok |-> FALSE,
                                     done |-> FALSE])
    /\ state_lock' = p
    /\ pc' = [pc EXCEPT ![p] = "mx_read"]
    /\ UNCHANGED <<conf, sessions, commands_sent, backend, cmd, quiet,
                   localVars, result, outVars, calls, returned, pre, last,
                   called, runs>>

\* self.state.lock().unwrap(): caller p enters an operation
MockLock(p) ==
    /\ pc[p] = "idle"
    /\ state_lock = 0
    /\ Len(history) < MaxCalls
    /\ \E c \in MockCalls :
         history' = Append(history, [caller |-> p, call |-> c, ok |-> FALSE,
                                     done |-> FALSE])
    /\ state_lock' = p
    /\ pc' = [pc EXCEPT ![p] = "mx_read"]
    /\ UNCHANGED <<conf, sessions, commands_sent, backend, cmd, quiet,
                   localVars, result, outVars, calls, returned, pre, last,
                   called, runs>>

\* the checks of the operation (contains_key, get_mut, position, len)
MockRead(p) ==
    /\ pc[p] = "mx_read"
    /\ result' = [result EXCEPT ![p] =
                     IF Apply(St, history[InFlight(p)].call).ok
                     THEN "ok" ELSE "backend"]
    /\ pc' = [pc EXCEPT ![p] = "mx_write"]
    /\ UNCHANGED <<conf, backendVars, cmd, quiet, localVars, outVars, calls,
                   returned, histVars>>

\* the update of the operation, its return, and the drop of the guard
MockWrite(p) ==
    /\ pc[p] = "mx_write"
    /\ LET st == IF result[p] = "ok"
                 THEN Update(St, history[InFlight(p)].call) ELSE St
       IN  sessions' = st.sessions /\ commands_sent' = st.commands_sent
    /\ history' = [history EXCEPT ![InFlight(p)].ok = (result[p] = "ok"),
                                  ![InFlight(p)].done = TRUE]
    /\ state_lock' = 0
    /\ pc' = [pc EXCEPT ![p] = "idle"]
    /\ UNCHANGED <<conf, backend, cmd, quiet, localVars, result, outVars,
                   calls, returned, pre, last, called, runs>>

NextConcurrent ==
    \E p \in Procs : MockLock(p) \/ MockRead(p) \/ MockWrite(p)

SpecConcurrent == InitBackend /\ [][NextConcurrent]_vars

(* ---------------------------------------------------------------------- *)
(* Vocabulary of the properties                                           *)
(* ---------------------------------------------------------------------- *)
\* the invocation of command c has returned to main
Finished(c) == pc[Main] = "idle" /\ cmd[Main] = c

Calls == calls[Main]
Pre == pre[Main]

\* positions of the Backend calls of operation op issued so far
CallsOf(op) == {i \in 1..Len(Calls) : Calls[i].op = op}
Count(op) == Cardinality(CallsOf(op))
Issued(op) == CallsOf(op) # {}

\* the Backend operations only run_up issues
UpOps == {"newSession", "listWindows", "newWindow", "sendKeys"}

DeclaredNames(window) ==
    {window[i].name[1] : i \in {j \in 1..Len(window) : window[j].name # None}}

LiveNames == IF SessionName \in DOMAIN sessions
             THEN Range(sessions[SessionName]) ELSE {}

(* ---------------------------------------------------------------------- *)
(* C1                                                                     *)
(* ---------------------------------------------------------------------- *)
\* C1 (as claimed): when run_up has succeeded right after a successful run_up,
\* the session map is the one the first run left, and the second run issued
\* no newWindow and no sendKeys for a declared window whose name was live
\* when it started.
C1_SecondUpChangesNothing ==
    (Finished("up") /\ result[Main] = "ok" /\ last.cmd = "up") =>
        /\ sessions = Pre.sessions
        /\ \A i \in CallsOf("newWindow") \cup CallsOf("sendKeys") :
             ~WindowExists(config[Main][Calls[i].idx + 1],
                           Pre.sessions[SessionName])

(* ---------------------------------------------------------------------- *)
(* C2                                                                     *)
(* ---------------------------------------------------------------------- *)
\* C2 (as claimed): after a successful run_up that found the session absent,
\* for a declaration whose windows all have names, every declared name
\* (that of index 0 too) is among the live window names.
C2_AllDeclaredNamesLive ==
    (/\ Finished("up") /\ result[Main] = "ok"
     /\ SessionName \notin DOMAIN Pre.sessions
     /\ \A i \in 1..Len(config[Main]) : config[Main][i].name # None)
    => DeclaredNames(config[Main]) \subseteq LiveNames

(* ---------------------------------------------------------------------- *)
(* C3                                                                     *)
(* ---------------------------------------------------------------------- *)
Returned == returned[Main]
DownPcs == {"dn_check", "dn_load", "dn_has", "dn_kill"}
UpPcs == {"up_check", "up_load", "up_has", "up_new_session", "up_list",
          "up_loop", "up_send"}

\* C3 (as claimed): every run_restart executes run_up, also when run_down
\* failed.
C3_UpRunsAfterDownFails ==
    Finished("restart") => \E i \in 1..Len(Returned) : Returned[i].fn = "run_up"

\* C3 (amended): run_restart runs run_down first and run_up only after
\* run_down returned success; when run_down fails, run_restart returns that
\* error at once and issues no Backend operation of run_up.
C3_RestartStopsWhenDownFails ==
    cmd[Main] = "restart" =>
        /\ Returned = <<>> =>
             pc[Main] \in DownPcs /\ Count("checkAvailable") <= 1
             /\ \A op \in UpOps : ~Issued(op)
        /\ Returned # <<>> => Returned[1].fn = "run_down"
        /\ (Returned # <<>> /\ Returned[1].result = "ok") =>
             \/ Len(Returned) = 1 /\ pc[Main] \in UpPcs
             \/ /\ Len(Returned) = 2 /\ Returned[2].fn = "run_up"
                /\ pc[Main] = "idle" /\ result[Main] = Returned[2].result
        /\ (Returned # <<>> /\ Returned[1].result # "ok") =>
             /\ pc[Main] = "idle" /\ result[Main] = Returned[1].result
             /\ Len(Returned) = 1
             /\ Count("checkAvailable") = 1
             /\ \A op \in UpOps : ~Issued(op)

\* run_restart has returned because kill_session failed in run_down
C3_Witness ==
    /\ Finished("restart")
    /\ Returned = <<[fn |-> "run_down", result |-> "backend"]>>
    /\ Calls[Len(Calls)] = [op |-> "killSession", idx |-> -1, ok |-> FALSE]

(* ---------------------------------------------------------------------- *)
(* C4                                                                     *)
(* ---------------------------------------------------------------------- *)
\* C4: run_attach calls attachSession only after run_up has returned success,
\* every Backend call before it having succeeded; when run_up fails, the
\* error is returned and attachSession is not called.
C4_AttachOnlyAfterUp ==
    cmd[Main] = "attach" =>
        /\ (pc[Main] \in {"at_load", "at_attach"} \/ Issued("attachSession")) =>
             Returned = <<[fn |-> "run_up", result |-> "ok"]>>
        /\ \A i \in CallsOf("attachSession") :
             i = Len(Calls) /\ \A j \in 1..(i - 1) : Calls[j].ok
        /\ (Returned # <<>> /\ Returned[1].result # "ok") =>
             /\ pc[Main] = "idle" /\ result[Main] = Returned[1].result
             /\ ~Issued("attachSession")

\* run_attach has returned the error of a new_window or send_keys that failed
\* after run_up had created the session
C4_Witness ==
    /\ Finished("attach")
    /\ result[Main] = "backend"
    /\ Returned = <<[fn |-> "run_up", result |-> "backend"]>>
    /\ \E i \in CallsOf("newSession") : Calls[i].ok
    /\ Calls[Len(Calls)].op \in {"newWindow", "sendKeys"}

(* ---------------------------------------------------------------------- *)
(* C5                                                                     *)
(* ---------------------------------------------------------------------- *)
Reconciliations == {"status", "up", "down", "attach", "restart"}

\* C5 (as claimed): a reconciliation run that has returned called
\* checkAvailable exactly once, as its first Backend operation, and if that
\* call failed it issued nothing else and left the backend state unchanged.
C5_CheckedExactlyOnce ==
    (pc[Main] = "idle" /\ cmd[Main] \in Reconciliations) =>
        /\ Count("checkAvailable") = 1
        /\ Calls[1].op = "checkAvailable"
        /\ ~Calls[1].ok => (Len(Calls) = 1 /\ St = [sessions |-> Pre.sessions,
                                  commands_sent |-> Pre.commands_sent])

\* C5 (amended): checkAvailable is the first Backend operation of every
\* reconciliation run; run_status, run_up and run_down call it exactly once;
\* run_attach calls it a second time, right after the first, when it enters
\* run_up; run_restart calls it once in run_down and once more when run_up
\* starts, before any Backend operation of run_up.  When a checkAvailable
\* call fails no Backend operation follows it in that run, and when the
\* first one fails the backend state is unchanged.
C5_CheckedFirst ==
    (cmd[Main] \in Reconciliations /\ Calls # <<>>) =>
        /\ Calls[1].op = "checkAvailable"
        /\ cmd[Main] \in {"status", "up", "down"} => Count("checkAvailable") = 1
        /\ cmd[Main] = "attach" =>
             /\ CallsOf("checkAvailable") \subseteq {1, 2}
             /\ Len(Calls) >= 2 => Calls[2].op = "checkAvailable"
        /\ cmd[Main] = "restart" =>
             /\ Count("checkAvailable") <= 2
             /\ \A i \in 1..Len(Calls) : Calls[i].op \in UpOps =>
                  \E j \in 2..(i - 1) : Calls[j].op = "checkAvailable"
        /\ pc[Main] = "idle" =>
             Count("checkAvailable") >= (IF cmd[Main] = "attach" /\ Calls[1].ok
                                         THEN 2 ELSE 1)
        /\ \A i \in CallsOf("checkAvailable") :
             ~Calls[i].ok =>
                 /\ i = Len(Calls)
                 /\ pc[Main] = "idle" /\ result[Main] = "backend"
        /\ ~Calls[1].ok => St = [sessions |-> Pre.sessions,
                                 commands_sent |-> Pre.commands_sent]

\* run_restart has killed the session and then the checkAvailable of run_up
\* failed: two calls of checkAvailable, nothing after the failed one
C5_Witness ==
    /\ Finished("restart")
    /\ Count("checkAvailable") = 2
    /\ \E i \in CallsOf("killSession") : Calls[i].ok
    /\ Calls[Len(Calls)] = [op |-> "checkAvailable", idx |-> -1, ok |-> FALSE]

(* ---------------------------------------------------------------------- *)
(* C6                                                                     *)
(* ---------------------------------------------------------------------- *)
\* names of the windows the successful new_window calls of the run created
CreatedWindows ==
    LET made == SelectSeq(Calls, LAMBDA c : c.op = "newWindow" /\ c.ok)
    IN  [i \in 1..Len(made) |-> WindowName(config[Main][made[i].idx + 1])]

\* log entries of the successful send_keys calls of the run
SentKeys ==
    LET sent == SelectSeq(Calls, LAMBDA c : c.op = "sendKeys" /\ c.ok)
    IN  [i \in 1..Len(sent) |->
            <<SessionName, sent[i].idx, config[Main][sent[i].idx + 1].command[1]>>]

\* C6: when a Backend operation fails in run_up, run_up returns the error at
\* that call (it is the last call issued, every earlier one succeeded) and
\* nothing is undone: the session, if it existed or was created, holds its
\* earlier windows followed by every window created before the failure, the
\* command log holds every command sent, and other sessions are untouched.
C6_FailureKeepsAppliedChanges ==
    (Finished("up") /\ result[Main] = "backend") =>
        /\ Calls # <<>>
        /\ ~Calls[Len(Calls)].ok
        /\ \A i \in 1..(Len(Calls) - 1) : Calls[i].ok
        /\ IF SessionName \in DOMAIN Pre.sessions
           THEN /\ SessionName \in DOMAIN sessions
                /\ sessions[SessionName] =
                       Pre.sessions[SessionName] \o CreatedWindows
           ELSE IF \E i \in CallsOf("newSession") : Calls[i].ok
           THEN /\ SessionName \in DOMAIN sessions
                /\ sessions[SessionName] = <<"bash">> \o CreatedWindows
           ELSE sessions = Pre.sessions
        /\ commands_sent = Pre.commands_sent \o SentKeys
        /\ \A n \in DOMAIN Pre.sessions \ {SessionName} :
             n \in DOMAIN sessions /\ sessions[n] = Pre.sessions[n]

\* run_up created the session and a window, then a later call failed
C6_Witness ==
    /\ Finished("up")
    /\ result[Main] = "backend"
    /\ \E i \in CallsOf("newSession") : Calls[i].ok
    /\ \E i \in CallsOf("newWindow") : Calls[i].ok
    /\ Calls[Len(Calls)].op \in {"newWindow", "sendKeys"}
    /\ ~Calls[Len(Calls)].ok
    /\ Len(sessions[SessionName]) = 2

(* ---------------------------------------------------------------------- *)
(* C7                                                                     *)
(* ---------------------------------------------------------------------- *)
\* C7: a run_status that follows a successful run_down and succeeds found
\* has_session false: the declared session is absent, the session line is
\* "NOT running" (nothing is printed under --quiet), and list_windows was
\* not called.
C7_StatusAfterDown ==
    (Finished("status") /\ result[Main] = "ok" /\ last.cmd = "down") =>
        /\ ~session_exists[Main]
        /\ SessionName \notin DOMAIN sessions
        /\ report[Main] = (IF quiet[Main] THEN "none" ELSE "NOT running")
        /\ marks[Main] = <<>>
        /\ ~Issued("listWindows")

\* run_status has reported "NOT running" after a run_down that killed the session
C7_Witness ==
    /\ Finished("status")
    /\ result[Main] = "ok"
    /\ last = [cmd |-> "down", existed |-> TRUE]
    /\ report[Main] = "NOT running"

(* ---------------------------------------------------------------------- *)
(* C8                                                                     *)
(* ---------------------------------------------------------------------- *)
\* C8: run_down on a loaded declaration succeeds against the in-memory
\* backend; when the session did not exist it did not call killSession and
\* the backend state is unchanged; when it existed, killSession was called
\* exactly once, the session is gone and every other session is as before.
C8_DownKillsOnlyExisting ==
    (Finished("down") /\ Pre.conf.ok) =>
        /\ result[Main] = "ok"
        /\ IF SessionName \in DOMAIN Pre.sessions
           THEN /\ Count("killSession") = 1
                /\ SessionName \notin DOMAIN sessions
                /\ sessions = [n \in DOMAIN Pre.sessions \ {SessionName} |->
                                  Pre.sessions[n]]
           ELSE /\ ~Issued("killSession")
                /\ sessions = Pre.sessions
        /\ commands_sent = Pre.commands_sent

\* run_down has returned success without killSession: no session to kill
C8_Witness ==
    /\ Finished("down")
    /\ result[Main] = "ok"
    /\ SessionName \notin DOMAIN Pre.sessions
    /\ ~Issued("killSession")
    /\ Issued("hasSession")

(* ---------------------------------------------------------------------- *)
(* C9                                                                     *)
(* ---------------------------------------------------------------------- *)
\* position of the first declared window named name, 0 if there is none
FirstNamed(window, name) ==
    LET at == {i \in 1..Len(window) : window[i].name = Some(name)}
    IN  IF at = {} THEN 0 ELSE CHOOSE i \in at : \A j \in at : i <= j

\* window without its first element named name
WithoutFirst(window, name) ==
    LET k == FirstNamed(window, name)
    IN  IF k = 0 THEN window
        ELSE SubSeq(window, 1, k - 1) \o SubSeq(window, k + 1, Len(window))

\* C9 (as claimed): a successful window remove deletes only the first
\* declared window of that name; every other window, later windows of the
\* same name included, is kept in order.
C9_RemovesFirstOnly ==
    (Finished("window_remove") /\ result[Main] = "ok") =>
        conf.window = WithoutFirst(Pre.conf.window, args[Main].name[1])

(* ---------------------------------------------------------------------- *)
(* C10                                                                    *)
(* ---------------------------------------------------------------------- *)
\* C10: window remove with a name no declared window carries fails with the
\* not-found error, writes nothing, and the configuration is as before.
C10_RemoveUnknownName ==
    (/\ Finished("window_remove")
     /\ Pre.conf.ok
     /\ args[Main].name # None
     /\ args[Main].name[1] \notin DeclaredNames(Pre.conf.window))
    => /\ result[Main] = "notfound"
       /\ written[Main] = <<>>
       /\ conf = Pre.conf

\* window remove --name b has failed on a declaration of two windows, one
\* named a and one unnamed
C10_Witness ==
    /\ Finished("window_remove")
    /\ result[Main] = "notfound"
    /\ args[Main].name = Some("b")
    /\ Len(conf.window) = 2
    /\ \E i \in 1..2 : conf.window[i].name = None
    /\ \E i \in 1..2 : conf.window[i].name = Some("a")

(* ---------------------------------------------------------------------- *)
(* C11                                                                    *)
(* ---------------------------------------------------------------------- *)
\* C11: window remove without --name fails with the validation error
\* whatever windows the loaded declaration holds, writes nothing, and
\* leaves the configuration file as it was.
C11_RemoveWithoutName ==
    (Finished("window_remove") /\ Pre.conf.ok /\ args[Main].name = None) =>
        /\ result[Main] = "validation"
        /\ written[Main] = <<>>
        /\ conf = Pre.conf

\* window remove without --name ran on a declaration that has an unnamed
\* window and a named one
C11_Witness ==
    /\ Finished("window_remove") /\ args[Main].name = None
    /\ result[Main] = "validation"
    /\ Len(conf.window) = 2
    /\ conf.window[1].name = None
    /\ conf.window[2].name # None

UpFromAbsent ==
    /\ Finished("up") /\ result[Main] = "ok"
    /\ SessionName \notin DOMAIN Pre.sessions

\* the commands_sent entries the invocation recorded
Recorded ==
    SubSeq(commands_sent, Len(Pre.commands_sent) + 1, Len(commands_sent))

\* C13: after run_up against a backend where the declared session does not
\* exist, the session is in the session map, every named window declared at
\* index >= 1 is among its windows, and at least one sendKeys is recorded
\* whenever some declared window has a command.
C13_UpFromAbsentSession ==
    UpFromAbsent =>
        /\ SessionName \in DOMAIN sessions
        /\ \A i \in 2..Len(config[Main]) :
             config[Main][i].name # None =>
                config[Main][i].name[1] \in LiveNames
        /\ (\E i \in 1..Len(config[Main]) : config[Main][i].command # None) =>
             \E k \in 1..Len(Recorded) : Recorded[k][1] = SessionName

\* run_up created the session for a declaration whose second window is named
\* and whose first window has a command
C13_Witness ==
    /\ UpFromAbsent
    /\ Len(config[Main]) = 2
    /\ config[Main][1].command # None
    /\ config[Main][2].name = Some("a")
    /\ Len(Recorded) >= 1

(* ---------------------------------------------------------------------- *)
(* C14                                                                    *)
(* ---------------------------------------------------------------------- *)
\* C14: in run_attach, attachSession is the last Backend operation: once it
\* has been issued, succeeded or failed, run_attach has returned with its
\* outcome and the invocation issues no further Backend call.
C14_AttachIsLast ==
    [][(cmd[Main] = "attach" /\ Issued("attachSession")) =>
          /\ Calls[Len(Calls)].op = "attachSession"
          /\ pc[Main] = "idle"
          /\ result[Main] = (IF Calls[Len(Calls)].ok THEN "ok" ELSE "backend")
          /\ (calls'[Main] = Calls \/ pc'[Main] # "idle")]_vars

\* attach_session failed on a session that run_up had found running
C14_Witness ==
    /\ Finished("attach")
    /\ result[Main] = "backend"
    /\ Calls[Len(Calls)] = [op |-> "attachSession", idx |-> -1, ok |-> FALSE]
    /\ session_exists[Main]

\* attach_session succeeded as the last call of run_attach
C14_WitnessAttached ==
    /\ Finished("attach") /\ result[Main] = "ok"
    /\ Calls[Len(Calls)].op = "attachSession"

(* ---------------------------------------------------------------------- *)
(* C15                                                                    *)
(* ---------------------------------------------------------------------- *)
Loaders == {"status", "up", "down", "attach"}

Marked ==
    /\ Finished("status") /\ result[Main] = "ok"
    /\ ~quiet[Main]
    /\ SessionName \in DOMAIN sessions

Live == sessions[SessionName]

\* the name run_status prints for declared window i (1-based)
Effective(i) ==
    IF config[Main][i].name = None THEN "unnamed" ELSE config[Main][i].name[1]

\* C16 (as claimed): the declared window at index i is marked running
\* exactly when its name is among the live window names, or it has no name
\* and i is less than the number of live windows; a named window absent from
\* the live names is marked not running whatever its index.
C16_NamedAbsentNotRunning ==
    Marked =>
        /\ Len(marks[Main]) = Len(config[Main])
        /\ \A i \in 1..Len(config[Main]) :
             /\ marks[Main][i].running <=>
                   \/ Effective(i) \in Range(Live)
                   \/ config[Main][i].name = None /\ i - 1 < Len(Live)
             /\ (config[Main][i].name # None
                   /\ config[Main][i].name[1] \notin Range(Live)) =>
                  ~marks[Main][i].running

\* C16 (amended): unless --quiet, the declared window at index i is marked
\* running exactly when its effective name is among the live window names,
\* or its effective name is "unnamed" (it has no name, or its declared name
\* is "unnamed") and i is less than the number of live windows; a window
\* declared with any other name that is absent from the live names is marked
\* not running whatever its index.
C16_UnnamedLeniency ==
    Marked =>
        /\ Len(marks[Main]) = Len(config[Main])
        /\ \A i \in 1..Len(config[Main]) :
             /\ marks[Main][i].name = Effective(i)
             /\ marks[Main][i].running <=>
                   \/ Effective(i) \in Range(Live)
                   \/ Effective(i) = "unnamed" /\ i - 1 < Len(Live)
             /\ (Effective(i) # "unnamed" /\ Effective(i) \notin Range(Live))
                  => ~marks[Main][i].running

\* a window declared with the name "unnamed" is marked running although no
\* live window has that name, and a window named "a" at a live index is not
C16_Witness ==
    /\ Marked
    /\ \E i \in 1..Len(config[Main]) :
         /\ config[Main][i].name = Some("unnamed")
         /\ "unnamed" \notin Range(Live)
         /\ marks[Main][i].running
    /\ \E i \in 1..Len(config[Main]) :
         /\ config[Main][i].name = Some("a")
         /\ i - 1 < Len(Live)
         /\ ~marks[Main][i].running

(* ---------------------------------------------------------------------- *)
(* C17                                                                    *)
(* ---------------------------------------------------------------------- *)
\* C17: new_session on a name that is not in use creates a session with
\* exactly one window; on a name in use it fails and leaves the window list
\* of that session (and everything else) as it was. So whatever Backend
\* operations came before, a session new_session has just created has exactly
\* one window.
C17_NewSessionOneWindow ==
    called.op = "newSession" =>
        IF called.session \in DOMAIN Pre.sessions
        THEN /\ ~called.ok
             /\ sessions = Pre.sessions
             /\ commands_sent = Pre.commands_sent
        ELSE /\ called.ok
             /\ DOMAIN sessions = DOMAIN Pre.sessions \cup {called.session}
             /\ Len(sessions[called.session]) = 1
             /\ \A n \in DOMAIN Pre.sessions : sessions[n] = Pre.sessions[n]
             /\ commands_sent = Pre.commands_sent

\* new_session created the declared session, as the last of three Backend
\* calls, next to a session that holds two windows
C17_Witness ==
    /\ called.op = "newSession" /\ called.ok
    /\ called.session = SessionName
    /\ runs = 3
    /\ Len(sessions[SessionName]) = 1
    /\ OtherSession \in DOMAIN sessions
    /\ Len(sessions[OtherSession]) = 2

\* new_session failed on a session that holds two windows
C17_WitnessInUse ==
    /\ called.op = "newSession" /\ ~called.ok
    /\ Len(sessions[called.session]) = 2

(* ---------------------------------------------------------------------- *)
(* C18                                                                    *)
(* ---------------------------------------------------------------------- *)
\* positions of the calls of operation op for the declared window at index i
CallsAt(op, i) == {k \in CallsOf(op) : Calls[k].idx = i}

\* C18: in a run_up that found the session absent and created it, the
\* declared window at index 0 causes no newWindow; sendKeys goes to window
\* index 0 exactly when that declaration has a command (and then once); the
\* implicit first window keeps the name the backend gave it.
C18_FirstWindowImplicit ==
    (/\ Finished("up") /\ result[Main] = "ok"
     /\ ~session_exists[Main]
     /\ config[Main] # <<>>) =>
        /\ CallsAt("newWindow", 0) = {}
        /\ CallsAt("sendKeys", 0) # {} <=> config[Main][1].command # None
        /\ Cardinality(CallsAt("sendKeys", 0)) <= 1
        /\ sessions[SessionName][1] = "bash"

\* run_up created the session for a declaration whose first window has a
\* name and a command
C18_Witness ==
    /\ Finished("up") /\ result[Main] = "ok"
    /\ ~session_exists[Main]
    /\ config[Main] # <<>>
    /\ config[Main][1].name = Some("a")
    /\ config[Main][1].command # None
    /\ CallsAt("sendKeys", 0) # {}

\* the first declared window has no command and nothing is sent to index 0
C18_WitnessNoCommand ==
    /\ Finished("up") /\ result[Main] = "ok"
    /\ ~session_exists[Main]
    /\ Len(config[Main]) = 2
    /\ config[Main][1].command = None
    /\ config[Main][2].command # None

(* ---------------------------------------------------------------------- *)
(* C19                                                                    *)
(* ---------------------------------------------------------------------- *)
\* run_up succeeded on a session that existed when it started
UpOnExisting ==
    /\ Finished("up") /\ result[Main] = "ok"
    /\ SessionName \in DOMAIN Pre.sessions

\* declared windows (1-based) without a name; with a name that is / is not
\* among the windows the session had when the run started
Unnamed == {i \in 1..Len(config[Main]) : config[Main][i].name = None}
NamedLive ==
    {i \in 1..Len(config[Main]) :
        /\ config[Main][i].name # None
        /\ config[Main][i].name[1] \in Range(Pre.sessions[SessionName])}
NamedMissing == (1..Len(config[Main])) \ (Unnamed \cup NamedLive)

\* what run_up issues for the declarations of an existing session: nothing
\* for a name that is listed, one newWindow (and one sendKeys if there is a
\* command) for every unnamed declaration
PerDeclaration ==
    /\ \A i \in NamedLive :
         CallsAt("newWindow", i - 1) = {} /\ CallsAt("sendKeys", i - 1) = {}
    /\ \A i \in Unnamed :
         /\ Cardinality(CallsAt("newWindow", i - 1)) = 1
         /\ Cardinality(CallsAt("sendKeys", i - 1)) =
               (IF config[Main][i].command = None THEN 0 ELSE 1)

Growth == Len(sessions[SessionName]) - Len(Pre.sessions[SessionName])

\* C19 (as claimed): on a session that already existed, a declared window
\* whose name is listed causes no newWindow and no sendKeys; every unnamed
\* declaration causes one newWindow (and one sendKeys if it has a command);
\* and the live window count grows by the number of unnamed declarations.
C19_GrowsByUnnamed ==
    UpOnExisting => PerDeclaration /\ Growth = Cardinality(Unnamed)

\* C19 (amended): as claimed for the listed names and the unnamed
\* declarations; the live window count grows by the number of unnamed
\* declarations plus the number of named declarations whose name is not
\* listed, so by exactly the number of unnamed ones when every declared name
\* is listed, and by at least that number on every run.
C19_GrowsByUnnamedAndMissing ==
    UpOnExisting =>
        /\ PerDeclaration
        /\ Growth = Cardinality(Unnamed) + Cardinality(NamedMissing)
        /\ Cardinality(CallsOf("newWindow")) = Growth

\* the second run_up in a row creates the unnamed window once more, next to
\* the "unnamed" window the first run created, and sends its command again
C19_Witness ==
    /\ UpOnExisting /\ last.cmd = "up"
    /\ "unnamed" \in Range(Pre.sessions[SessionName])
    /\ \E i \in Unnamed : config[Main][i].command # None
    /\ NamedLive # {}
    /\ Growth = Cardinality(Unnamed)

(* ---------------------------------------------------------------------- *)
(* C20                                                                    *)
(* ---------------------------------------------------------------------- *)
\* the window list run_up captured: that of the session when the run
\* started, or the empty list when it created the session
Listed ==
    IF SessionName \in DOMAIN Pre.sessions
    THEN Pre.sessions[SessionName] ELSE <<>>

NameCount(n, windows) ==
    Cardinality({k \in 1..Len(windows) : windows[k] = n})

\* pairs of declared windows (1-based) that share a name
Duplicates ==
    {d \in (1..Len(config[Main])) \X (1..Len(config[Main])) :
        /\ d[1] < d[2]
        /\ config[Main][d[1]].name # None
        /\ config[Main][d[1]].name = config[Main][d[2]].name}

\* the declared window i is the one mapped onto the implicit first window
Implicit(i) == i = 1 /\ SessionName \notin DOMAIN Pre.sessions

\* C20 (as claimed): of two declared windows that share a name, the second
\* is treated as already existing, no newWindow is issued for it, and the
\* live session ends with at most one window of that name.
C20_SecondDuplicateSkipped ==
    (Finished("up") /\ result[Main] = "ok") =>
        \A d \in Duplicates :
           /\ CallsAt("newWindow", d[2] - 1) = {}
           /\ NameCount(config[Main][d[2]].name[1], sessions[SessionName]) <= 1

\* C20 (amended): the existing-window list is captured once before the loop
\* and never refreshed, so a declared window gets a newWindow exactly when
\* its name is not in that list (and it is not the implicit first window),
\* whatever the loop created before it. Two declared windows that share a
\* name are judged alike: if the name is in the list, no newWindow is issued
\* for either; if it is not, a newWindow is issued for the second as well,
\* and the live session ends with one window of that name per such
\* declaration, two when the session already existed.
C20_JudgedAgainstSnapshot ==
    (Finished("up") /\ result[Main] = "ok") =>
        /\ existing_windows[Main] = Listed
        /\ \A i \in 1..Len(config[Main]) :
             CallsAt("newWindow", i - 1) # {} <=>
                /\ \/ config[Main][i].name = None
                   \/ config[Main][i].name[1] \notin Range(Listed)
                /\ ~Implicit(i)
        /\ \A d \in Duplicates :
             LET n == config[Main][d[2]].name[1]
             IN  IF n \in Range(Listed)
                 THEN /\ CallsAt("newWindow", d[1] - 1) = {}
                      /\ CallsAt("newWindow", d[2] - 1) = {}
                      /\ NameCount(n, sessions[SessionName]) =
                            NameCount(n, Listed)
                 ELSE /\ Cardinality(CallsAt("newWindow", d[2] - 1)) = 1
                      /\ NameCount(n, sessions[SessionName]) =
                            Cardinality({i \in 1..Len(config[Main]) :
                                            /\ config[Main][i].name = Some(n)
                                            /\ ~Implicit(i)})

\* run_up on a running session that lacks the name created both windows of
\* a declaration that names two windows alike
C20_Witness ==
    /\ Finished("up") /\ result[Main] = "ok"
    /\ Duplicates # {}
    /\ Listed = <<"bash">>
    /\ sessions[SessionName] = <<"bash", "a", "a">>

\* both windows of the pair are skipped when the name is listed
C20_WitnessListed ==
    /\ Finished("up") /\ result[Main] = "ok"
    /\ Duplicates # {}
    /\ Listed = <<"a">>
    /\ sessions[SessionName] = <<"a">>

(* ---------------------------------------------------------------------- *)
(* C21                                                                    *)
(* ---------------------------------------------------------------------- *)
\* the step is one of run_up and issues a Backend call
UpIssues ==
    /\ pc[Main] \in UpPcs
    /\ Len(calls'[Main]) = Len(Calls) + 1

\* the step is the return of run_up
UpReturning ==
    /\ pc[Main] \in UpPcs
    /\ Len(returned'[Main]) = Len(Returned) + 1

\* C21: in a run_up nothing interleaves with, newSession is called only while
\* the session is absent, listWindows, newWindow and sendKeys only while it
\* exists, so every Backend call of run_up succeeds on the in-memory backend
\* and run_up returns success for every declaration that loads, whatever the
\* state it started from.
C21_UpNeverFails ==
    [][/\ UpIssues =>
            LET c == calls'[Main][Len(calls'[Main])]
            IN  /\ c.op = "newSession" => SessionName \notin DOMAIN sessions
                /\ c.op \in {"listWindows", "newWindow", "sendKeys"} =>
                      SessionName \in DOMAIN sessions
                /\ c.ok
       /\ UpReturning =>
            LET r == returned'[Main][Len(returned'[Main])].result
            IN  r = (IF conf.ok THEN "ok" ELSE "config")]_vars

\* run_up found the session running, listed it, created a window and sent
\* its command
C21_Witness ==
    /\ Finished("up") /\ result[Main] = "ok"
    /\ Issued("listWindows") /\ Issued("newWindow") /\ Issued("sendKeys")

\* run_restart killed the session and its run_up created it again
C21_WitnessRestart ==
    /\ Finished("restart") /\ result[Main] = "ok"
    /\ Issued("killSession") /\ Issued("newSession") /\ Issued("newWindow")

(* ---------------------------------------------------------------------- *)
(* C22                                                                    *)
(* ---------------------------------------------------------------------- *)
\* the calls of h made one after the other from st: the state they leave,
\* and whether each returns what h records
RECURSIVE Replay(_, _)
Replay(st, h) ==
    IF h = <<>>
    THEN [st |-> st, same |-> TRUE]
    ELSE LET r == Apply(st, Head(h).call)
             rest == Replay(r.st, Tail(h))
         IN  [st |-> rest.st, same |-> rest.same /\ (r.ok = Head(h).ok)]

\* the state before the first call
Initial == [sessions |-> pre[Main].sessions,
            commands_sent |-> pre[Main].commands_sent]

Quiescent == \A p \in Procs : pc[p] = "idle"

\* C22: the in-memory backend serializes its callers: at most one caller is
\* inside an operation; whenever no call is in flight, the state and every
\* result are those of the same calls made one after the other (in the order
\* they took the lock); and of two new_session calls for the same absent
\* name exactly one succeeds.
C22_Serialized ==
    /\ Cardinality({p \in Procs : pc[p] # "idle"}) <= 1
    /\ Quiescent =>
         /\ Replay(Initial, history).st = St
         /\ Replay(Initial, history).same
    /\ (/\ Quiescent /\ Len(history) = 2
        /\ SessionName \notin DOMAIN Initial.sessions
        /\ \A i \in 1..2 : history[i].call.op = "newSession") =>
          history[1].ok # history[2].ok

\* two callers have called new_session for the absent session: the one that
\* took the lock first succeeded, the other got the error
C22_Witness ==
    /\ Quiescent /\ Len(history) = 2
    /\ SessionName \notin DOMAIN Initial.sessions
    /\ history[1].caller # history[2].caller
    /\ \A i \in 1..2 : history[i].call.op = "newSession"
    /\ history[1].ok /\ ~history[2].ok

(* ---------------------------------------------------------------------- *)
(* C23                                                                    *)
(* ---------------------------------------------------------------------- *)
\* run_up has just sent the command of the declared window at index i, right
\* after the new_window it issued for that declaration
SentAfterCreate ==
    /\ Len(Calls) >= 2
    /\ Calls[Len(Calls)].op = "sendKeys" /\ Calls[Len(Calls)].ok
    /\ Calls[Len(Calls) - 1].op = "newWindow"
    /\ Calls[Len(Calls) - 1].idx = Calls[Len(Calls)].idx

\* C23 (as claimed): when run_up issues sendKeys to index i right after the
\* newWindow for the declared window at index i, the live window at position
\* i is the window that was just created, the last of the session, and it
\* carries the declared name: the command does not go to a window that was
\* there before.
C23_CommandReachesCreatedWindow ==
    SentAfterCreate =>
        LET i == Calls[Len(Calls)].idx
        IN  /\ Len(sessions[SessionName]) = i + 1
            /\ sessions[SessionName][i + 1] =
                  (IF config[Main][i + 1].name = None THEN "unnamed"
                   ELSE config[Main][i + 1].name[1])

(* ---------------------------------------------------------------------- *)
(* C24                                                                    *)
(* ---------------------------------------------------------------------- *)
\* the declaration indexes (0-based) of the calls of op, in call order
IndexesOf(op) ==
    LET at == SelectSeq(Calls, LAMBDA c : c.op = op)
    IN  [k \in 1..Len(at) |-> at[k].idx]

\* the numbers of S in increasing order
RECURSIVE Ascending(_)
Ascending(S) ==
    IF S = {} THEN <<>>
    ELSE LET m == CHOOSE x \in S : \A y \in S : x <= y
         IN  <<m>> \o Ascending(S \ {m})

\* the calls that concern declared windows never go back to a lower index
InDeclarationOrder ==
    LET at == SelectSeq(Calls, LAMBDA c : c.op \in {"newWindow", "sendKeys"})
    IN  \A j, k \in 1..Len(at) : j < k => at[j].idx <= at[k].idx

\* C24: run_up from an absent session, for a declaration of N windows,
\* issues exactly one newSession, no listWindows, one newWindow for each of
\* the indexes 1..N-1 and one sendKeys for each declared window that has a
\* command, in declaration order; the live session then has max(N, 1)
\* windows.
C24_CallsFromAbsent ==
    UpFromAbsent =>
        LET N == Len(config[Main])
        IN  /\ Count("newSession") = 1
            /\ Count("listWindows") = 0
            /\ IndexesOf("newWindow") = Ascending(1..(N - 1))
            /\ IndexesOf("sendKeys") =
                  Ascending({i \in 0..(N - 1) : config[Main][i + 1].command # None})
            /\ InDeclarationOrder
            /\ Len(sessions[SessionName]) = (IF N >= 1 THEN N ELSE 1)

\* run_up created the session for two declared windows that both have a
\* command
C24_Witness ==
    /\ UpFromAbsent
    /\ Len(config[Main]) = 2
    /\ IndexesOf("sendKeys") = <<0, 1>>
    /\ IndexesOf("newWindow") = <<1>>

\* run_up created the session for an empty declaration
C24_WitnessEmpty ==
    /\ UpFromAbsent
    /\ config[Main] = <<>>
    /\ Len(sessions[SessionName]) = 1

(* ---------------------------------------------------------------------- *)
(* C25                                                                    *)
(* ---------------------------------------------------------------------- *)
IsPrefix(u, v) == Len(u) <= Len(v) /\ SubSeq(v, 1, Len(u)) = u

\* C25: no step of run_up, run_down or run_restart touches a session other
\* than the declared one: every other session stays, with the window list it
\* had, none appears, and nothing is sent to one; and a step of run_up only
\* appends to the windows of the declared session, it removes and renames
\* none.
C25_OnlyDeclaredSession ==
    [][/\ \A n \in (DOMAIN sessions) \ {SessionName} :
            n \in DOMAIN sessions' /\ sessions'[n] = sessions[n]
       /\ DOMAIN sessions' \subseteq DOMAIN sessions \cup {SessionName}
       /\ IsPrefix(commands_sent, commands_sent')
       /\ \A k \in (Len(commands_sent) + 1)..Len(commands_sent') :
            commands_sent'[k][1] = SessionName
       /\ (pc[Main] \in UpPcs /\ SessionName \in DOMAIN sessions) =>
            /\ SessionName \in DOMAIN sessions'
            /\ IsPrefix(sessions[SessionName], sessions'[SessionName])]_vars

\* after run_down and then run_up, the declared session has been killed and
\* built again next to the other session
C25_Witness ==
    /\ Finished("up") /\ result[Main] = "ok"
    /\ last = [cmd |-> "down", existed |-> TRUE]
    /\ Issued("newSession") /\ Issued("newWindow")
    /\ sessions[OtherSession] = <<"bash">>

(* ---------------------------------------------------------------------- *)
(* C26                                                                    *)
(* ---------------------------------------------------------------------- *)
\* every declared window has a name and no two have the same
DistinctNames ==
    /\ \A i \in 1..Len(config[Main]) : config[Main][i].name # None
    /\ \A i, j \in 1..Len(config[Main]) :
         i # j => config[Main][i].name # config[Main][j].name

\* the run_up that has returned issued no call that changes anything and
\* left the backend as it found it
NothingToDo ==
    /\ ~Issued("newSession") /\ ~Issued("newWindow") /\ ~Issued("sendKeys")
    /\ sessions = Pre.sessions
    /\ commands_sent = Pre.commands_sent

\* C26: for a declaration whose windows all have distinct names, a run_up
\* that follows a successful run_up which had found the session running has
\* nothing to do; and whatever the first run_up started from, an absent
\* session too, the third run_up in a row has nothing to do.
C26_FixedPoint ==
    (Finished("up") /\ result[Main] = "ok" /\ DistinctNames) =>
        /\ last = [cmd |-> "up", existed |-> TRUE] => NothingToDo
        /\ runs >= 3 => NothingToDo

\* the third run_up finds the windows the first two built from an absent
\* session: the first sent the command to the implicit window, the second
\* created the window named "a" and sent the command again
C26_Witness ==
    /\ Finished("up") /\ result[Main] = "ok" /\ DistinctNames
    /\ runs = 3
    /\ Len(config[Main]) = 2
    /\ config[Main][1] = [name |-> Some("a"), command |-> Some(<<"vim">>)]
    /\ sessions[SessionName] = <<"bash", "b", "a">>
    /\ commands_sent = <<<<SessionName, 0, <<"vim">>>>,
                         <<SessionName, 0, <<"vim">>>>>>
    /\ NothingToDo

(* ---------------------------------------------------------------------- *)
(* C27                                                                    *)
(* ---------------------------------------------------------------------- *)
\* the cases in which the operation just called has to return an error,
\* judged on the state it was called in
ErrorCase ==
    LET missing == called.session \notin DOMAIN Pre.sessions
    IN  CASE called.op \in {"listWindows", "newWindow", "sendKeys",
                            "killSession", "attachSession"} -> missing
          [] called.op = "newSession" -> ~missing
          [] called.op = "killWindow" ->
                missing \/ called.window[1] \notin Range(Pre.sessions[called.session])
          [] called.op = "renameWindow" ->
                missing \/ called.index >= Len(Pre.sessions[called.session])
          [] OTHER -> FALSE

\* C27: an operation of the in-memory backend returns an error exactly in
\* the listed cases (missing session; new_session on an existing one;
\* kill_window of a name that is not there; rename_window beyond the last
\* index), and an operation that returned an error has left the session map
\* and the command log exactly as they were.
C27_ErrorsChangeNothing ==
    called.op # "none" =>
        /\ ~called.ok <=> ErrorCase
        /\ ~called.ok =>
             sessions = Pre.sessions /\ commands_sent = Pre.commands_sent

\* kill_window did not find the name in a session of two windows
C27_Witness ==
    /\ called.op = "killWindow" /\ ~called.ok
    /\ called.session \in DOMAIN sessions
    /\ Len(sessions[called.session]) = 2

\* rename_window was given an index beyond the last window
C27_WitnessRename ==
    /\ called.op = "renameWindow" /\ ~called.ok
    /\ called.session \in DOMAIN sessions
    /\ called.index = Len(sessions[called.session])

(* ---------------------------------------------------------------------- *)
(* C28                                                                    *)
(* ---------------------------------------------------------------------- *)
\* the operations of the calls issued so far, in order
Ops == [k \in 1..Len(Calls) |-> Calls[k].op]

\* C28: run_status is read-only: it issues checkAvailable, then hasSession,
\* then at most one listWindows, and no listWindows when the session does
\* not exist; the session map and the command log stay as they were; and
\* for a declaration that loads, a missing session is a success.
C28_StatusReadOnly ==
    cmd[Main] = "status" =>
        /\ IsPrefix(Ops, <<"checkAvailable", "hasSession", "listWindows">>)
        /\ Issued("listWindows") => SessionName \in DOMAIN sessions
        /\ sessions = Pre.sessions
        /\ commands_sent = Pre.commands_sent
        /\ (pc[Main] = "idle" /\ conf.ok /\ SessionName \notin DOMAIN sessions) =>
             /\ result[Main] = "ok"
             /\ Ops = <<"checkAvailable", "hasSession">>
             /\ report[Main] = (IF quiet[Main] THEN "none" ELSE "NOT running")

\* run_status reported a missing session as a success
C28_Witness ==
    /\ Finished("status") /\ result[Main] = "ok"
    /\ SessionName \notin DOMAIN sessions
    /\ report[Main] = "NOT running"
    /\ config[Main] # <<>>

\* run_status listed the windows of a running session once
C28_WitnessListed ==
    /\ Finished("status") /\ result[Main] = "ok"
    /\ Ops = <<"checkAvailable", "hasSession", "listWindows">>
    /\ Len(marks[Main]) = 2

(* ---------------------------------------------------------------------- *)
(* C29                                                                    *)
(* ---------------------------------------------------------------------- *)
\* the windows of the session after run_up on an absent session followed by
\* a second run_up, for the declared windows w
TwoRuns(w) ==
    LET eff(c) == IF c.name = None THEN "unnamed" ELSE c.name[1]
        first == <<"bash">> \o [i \in 1..(Len(w) - 1) |-> eff(w[i + 1])]
        again == SelectSeq(w, LAMBDA c : c.name = None
                                         \/ c.name[1] \notin Range(first))
    IN  first \o [i \in 1..Len(again) |-> eff(again[i])]

\* run_up twice in a row from an absent session leaves the windows TwoRuns
\* gives
TwoRunsInARow ==
    (Finished("up") /\ result[Main] = "ok"
        /\ last = [cmd |-> "up", existed |-> FALSE])
    => sessions[SessionName] = TwoRuns(config[Main])

BothReturned == \A p \in Procs : cmd[p] = "up" /\ pc[p] = "idle"

\* C29 (as claimed): two run_up invocations for one declaration whose
\* Backend calls interleave, from a state where the session does not exist,
\* both return success and leave the windows a run_up followed by a second
\* run_up leaves.
C29_InterleavedUpsSucceed ==
    (BothReturned /\ conf.ok) =>
        /\ \A p \in Procs : result[p] = "ok"
        /\ sessions[SessionName] = TwoRuns(conf.window)

\* C29, its first half alone: neither invocation fails
C29_NeitherFails ==
    (BothReturned /\ conf.ok) => \A p \in Procs : result[p] = "ok"

\* C29, its second half alone: when both succeeded, the windows are those of
\* two runs in a row
C29_NoDuplicateWindows ==
    (BothReturned /\ \A p \in Procs : result[p] = "ok") =>
        sessions[SessionName] = TwoRuns(conf.window)

====
